---- MODULE Spec2Model ----
(***************************************************************************)
(* Session / stream state machine of the llm-distill web client.           *)
(*                                                                         *)
(*   chatReducer      apps/web/src/providers/chatReducer.ts                *)
(*   ChatProvider     apps/web/src/providers/ChatProvider.tsx (dispatch    *)
(*                    and the repair effect)                               *)
(*   useSseStream     apps/web/src/hooks/useSseStream.ts (the revision     *)
(*                    with manual stop, kept as src/unnamed/part_003)      *)
(*   MessageInput /   apps/web/src/features/chat-view (src/unnamed/        *)
(*   ChatView         part_008): the component that owns the hook          *)
(*                                                                         *)
(* Strings are TLA+ strings, concatenated with \o as the code does with +. *)
(* Date.now() is the variable now; crypto.randomUUID() is the counter      *)
(* nextUuid.  `undefined` is Undefined, `null` is Null.                    *)
(***************************************************************************)
EXTENDS Integers, Sequences, FiniteSets, TLC

\* ---- bounds of the model -------------------------------------------------
MaxUuid == 7
MaxChats == 2
MaxTime == 1
MaxTokens == 2
MaxSteps == 5
MaxSessions == 3
MaxSaved == 4

\* ---- inputs --------------------------------------------------------------
Tokens == {"a", "b"}
Prompts == {"p", "q"}
Contexts == {"C1"}
Titles == {""}

Undefined == -1
Null == 0
Malformed == "{"

\* what a data event can carry: a token (possibly the empty string), a body
\* that JSON.parse rejects, or an object without a token field
NoToken == "{}"
Payloads == Tokens \cup {"", Malformed, NoToken}

\* ---- helpers -------------------------------------------------------------
Put(m, k, v) == [x \in (DOMAIN m) \cup {k} |-> IF x = k THEN v ELSE m[x]]
Remove(m, k) == [x \in (DOMAIN m) \ {k} |-> m[x]]

\* JavaScript truthiness of an optional number (undefined and 0 are falsy)
Truthy(n) == n # Undefined /\ n # 0

ChatIds(state) == {state.chats[i].id : i \in 1..Len(state.chats)}
Chats(state) == {state.chats[i] : i \in 1..Len(state.chats)}
\* chats.find(c => c.id === id); callers test membership first
FindChat(state, id) ==
  state.chats[CHOOSE i \in 1..Len(state.chats) : state.chats[i].id = id]

\* chats.map(chat => chat.id === chatId ? f(chat) : chat)
MapChat(state, chatId, f) ==
  [state EXCEPT !.chats =
     [i \in 1..Len(state.chats) |->
        IF state.chats[i].id = chatId THEN f[state.chats[i]] ELSE state.chats[i]]]

\* messages.slice(0, -n)
DropLast(s, n) == SubSeq(s, 1, Len(s) - n)

\* ---- the reducer ---------------------------------------------------------
initialState == [chats |-> <<>>, activeChatId |-> Null]

DefaultTitle(now) == "Session " \o ToString(now)

\* mutant: the new chat is put at the end of the list
CreateChatAtTail(state, p, uuid, now) ==
  LET newChat == [id |-> uuid,
                  title |-> IF p.title # "" THEN p.title ELSE DefaultTitle(now),
                  context |-> p.context,
                  messages |-> <<>>,
                  createdAt |-> now,
                  isStreaming |-> FALSE,
                  streamingStartTime |-> Undefined,
                  draftMessage |-> ""]
  IN [state EXCEPT !.chats = Append(state.chats, newChat),
                   !.activeChatId = newChat.id]

CreateChat(state, p, uuid, now) ==
  LET newChat == [id |-> uuid,
                  title |-> IF p.title # "" THEN p.title ELSE DefaultTitle(now),
                  context |-> p.context,
                  messages |-> <<>>,
                  createdAt |-> now,
                  isStreaming |-> FALSE,
                  streamingStartTime |-> Undefined,
                  draftMessage |-> ""]
  IN [state EXCEPT !.chats = <<newChat>> \o state.chats,
                   !.activeChatId = newChat.id]

\* mutant: activeChatId is left as it was
DeleteChatKeepActive(state, p) ==
  LET Keep(c) == c.id # p.chatId
      updatedChats == SelectSeq(state.chats, Keep)
  IN [state EXCEPT !.chats = updatedChats]

DeleteChat(state, p) ==
  LET Keep(c) == c.id # p.chatId
      updatedChats == SelectSeq(state.chats, Keep)
      newActiveChatId ==
        IF state.activeChatId = p.chatId
        THEN (IF Len(updatedChats) > 0 THEN updatedChats[1].id ELSE Null)
        ELSE state.activeChatId
  IN [state EXCEPT !.chats = updatedChats, !.activeChatId = newActiveChatId]

SetActiveChat(state, p) == [state EXCEPT !.activeChatId = p.chatId]

\* mutant: the user message is put in front of the list
AddUserMessageFirst(state, p, uuid) ==
  LET newUserMessage == [id |-> uuid, role |-> "user", content |-> p.content,
                         generationTime |-> Undefined]
      Upd(chat) == [chat EXCEPT !.messages = <<newUserMessage>> \o chat.messages]
  IN MapChat(state, p.chatId, [chat \in Chats(state) |-> Upd(chat)])

AddUserMessage(state, p, uuid) ==
  LET newUserMessage == [id |-> uuid, role |-> "user", content |-> p.content,
                         generationTime |-> Undefined]
      Upd(chat) == [chat EXCEPT !.messages = Append(chat.messages, newUserMessage)]
  IN MapChat(state, p.chatId, [chat \in Chats(state) |-> Upd(chat)])

AddModelPlaceholder(state, p, uuid) ==
  LET newModelMessage == [id |-> uuid, role |-> "model", content |-> "",
                          generationTime |-> Undefined]
      Upd(chat) == [chat EXCEPT !.messages = Append(chat.messages, newModelMessage)]
  IN MapChat(state, p.chatId, [chat \in Chats(state) |-> Upd(chat)])

\* mutant: slice(0, -2) without the length test
RollbackLastExchangeUnguarded(state, p) ==
  LET Upd(chat) == [chat EXCEPT !.messages = DropLast(chat.messages, 2)]
  IN MapChat(state, p.chatId, [chat \in Chats(state) |-> Upd(chat)])

\* mutant: the role of the last message is not tested
AppendStreamTokenAnyRole(state, p, now) ==
  LET Upd(chat) ==
        IF Len(chat.messages) = 0
        THEN chat
        ELSE LET lastMessage == chat.messages[Len(chat.messages)]
                 isFirstToken == lastMessage.content = ""
                 generationTime ==
                   IF isFirstToken /\ Truthy(chat.streamingStartTime)
                   THEN now - chat.streamingStartTime
                   ELSE Undefined
                 updatedLastMessage ==
                   [lastMessage EXCEPT
                      !.content = lastMessage.content \o p.token,
                      !.generationTime = IF generationTime # Undefined
                                         THEN generationTime
                                         ELSE lastMessage.generationTime]
             IN [chat EXCEPT !.messages =
                   Append(DropLast(chat.messages, 1), updatedLastMessage)]
  IN MapChat(state, p.chatId, [chat \in Chats(state) |-> Upd(chat)])

\* mutant: the token is put in front of the content
AppendStreamTokenPrepend(state, p, now) ==
  LET Upd(chat) ==
        IF Len(chat.messages) = 0 \/ chat.messages[Len(chat.messages)].role # "model"
        THEN chat
        ELSE LET lastMessage == chat.messages[Len(chat.messages)]
                 isFirstToken == lastMessage.content = ""
                 generationTime ==
                   IF isFirstToken /\ Truthy(chat.streamingStartTime)
                   THEN now - chat.streamingStartTime
                   ELSE Undefined
                 updatedLastMessage ==
                   [lastMessage EXCEPT
                      !.content = p.token \o lastMessage.content,
                      !.generationTime = IF generationTime # Undefined
                                         THEN generationTime
                                         ELSE lastMessage.generationTime]
             IN [chat EXCEPT !.messages =
                   Append(DropLast(chat.messages, 1), updatedLastMessage)]
  IN MapChat(state, p.chatId, [chat \in Chats(state) |-> Upd(chat)])

\* generationTime is kept in milliseconds (the code divides by 1000)
AppendStreamToken(state, p, now) ==
  LET Upd(chat) ==
        IF Len(chat.messages) = 0 \/ chat.messages[Len(chat.messages)].role # "model"
        THEN chat
        ELSE LET lastMessage == chat.messages[Len(chat.messages)]
                 isFirstToken == lastMessage.content = ""
                 generationTime ==
                   IF isFirstToken /\ Truthy(chat.streamingStartTime)
                   THEN now - chat.streamingStartTime
                   ELSE Undefined
                 updatedLastMessage ==
                   [lastMessage EXCEPT
                      !.content = lastMessage.content \o p.token,
                      !.generationTime = IF generationTime # Undefined
                                         THEN generationTime
                                         ELSE lastMessage.generationTime]
             IN [chat EXCEPT !.messages =
                   Append(DropLast(chat.messages, 1), updatedLastMessage)]
  IN MapChat(state, p.chatId, [chat \in Chats(state) |-> Upd(chat)])

\* mutant: the flag is set on every chat
SetChatStreamingStatusAll(state, p) ==
  [state EXCEPT !.chats =
     [i \in 1..Len(state.chats) |->
        [state.chats[i] EXCEPT !.isStreaming = p.isStreaming]]]

SetChatStreamingStatus(state, p) ==
  LET Upd(chat) == [chat EXCEPT !.isStreaming = p.isStreaming]
  IN MapChat(state, p.chatId, [chat \in Chats(state) |-> Upd(chat)])

\* mutant: only the placeholder is removed
RollbackLastExchangeOne(state, p) ==
  LET Upd(chat) == IF Len(chat.messages) >= 2
                   THEN [chat EXCEPT !.messages = DropLast(chat.messages, 1)]
                   ELSE chat
  IN MapChat(state, p.chatId, [chat \in Chats(state) |-> Upd(chat)])

RollbackLastExchange(state, p) ==
  LET Upd(chat) == IF Len(chat.messages) >= 2
                   THEN [chat EXCEPT !.messages = DropLast(chat.messages, 2)]
                   ELSE chat
  IN MapChat(state, p.chatId, [chat \in Chats(state) |-> Upd(chat)])

\* mutant: the chat is marked as streaming as well
SetStreamingStartTimeMarks(state, p) ==
  LET Upd(chat) == [chat EXCEPT !.streamingStartTime = p.startTime,
                                !.isStreaming = TRUE]
  IN MapChat(state, p.chatId, [chat \in Chats(state) |-> Upd(chat)])

SetStreamingStartTime(state, p) ==
  LET Upd(chat) == [chat EXCEPT !.streamingStartTime = p.startTime]
  IN MapChat(state, p.chatId, [chat \in Chats(state) |-> Upd(chat)])

UpdateDraftMessage(state, p) ==
  LET Upd(chat) == [chat EXCEPT !.draftMessage = p.text]
  IN MapChat(state, p.chatId, [chat \in Chats(state) |-> Upd(chat)])

\* mutant: the default case returns the initial state
chatReducerDefaultResets(state, action, uuid, now) ==
  CASE action.type = "CREATE_CHAT" -> CreateChat(state, action.payload, uuid, now)
    [] action.type = "DELETE_CHAT" -> DeleteChat(state, action.payload)
    [] action.type = "SET_ACTIVE_CHAT" -> SetActiveChat(state, action.payload)
    [] action.type = "ADD_USER_MESSAGE" -> AddUserMessage(state, action.payload, uuid)
    [] action.type = "ADD_MODEL_PLACEHOLDER" -> AddModelPlaceholder(state, action.payload, uuid)
    [] action.type = "APPEND_STREAM_TOKEN" -> AppendStreamToken(state, action.payload, now)
    [] action.type = "SET_CHAT_STREAMING_STATUS" -> SetChatStreamingStatus(state, action.payload)
    [] action.type = "ROLLBACK_LAST_EXCHANGE" -> RollbackLastExchange(state, action.payload)
    [] action.type = "SET_STREAMING_START_TIME" -> SetStreamingStartTime(state, action.payload)
    [] action.type = "UPDATE_DRAFT_MESSAGE" -> UpdateDraftMessage(state, action.payload)
    [] OTHER -> initialState

\* chatReducer(state, action); uuid and now stand for generateUUID() and
\* Date.now() as evaluated inside the case
chatReducer(state, action, uuid, now) ==
  CASE action.type = "CREATE_CHAT" -> CreateChat(state, action.payload, uuid, now)
    [] action.type = "DELETE_CHAT" -> DeleteChat(state, action.payload)
    [] action.type = "SET_ACTIVE_CHAT" -> SetActiveChat(state, action.payload)
    [] action.type = "ADD_USER_MESSAGE" -> AddUserMessage(state, action.payload, uuid)
    [] action.type = "ADD_MODEL_PLACEHOLDER" -> AddModelPlaceholder(state, action.payload, uuid)
    [] action.type = "APPEND_STREAM_TOKEN" -> AppendStreamToken(state, action.payload, now)
    [] action.type = "SET_CHAT_STREAMING_STATUS" -> SetChatStreamingStatus(state, action.payload)
    [] action.type = "ROLLBACK_LAST_EXCHANGE" -> RollbackLastExchange(state, action.payload)
    [] action.type = "SET_STREAMING_START_TIME" -> SetStreamingStartTime(state, action.payload)
    [] action.type = "UPDATE_DRAFT_MESSAGE" -> UpdateDraftMessage(state, action.payload)
    [] OTHER -> state

\* ---- the stream controller (useSseStream) --------------------------------
\* A world w is what one handler reads and writes: the reducer state, the
\* EventSource objects ever constructed (keyed by their clientId) and the
\* eventSourcesRef map of every MessageInput instance mounted so far.
\*   sources[c].readyState   "connecting" | "open" | "closed"
\*   sources[c].fetch        "idle" | "pending" | "ok" | "failed" (the submit call)
\*   sources[c].owner        the instance whose stopStream its handlers call
\*   sources[c].delivered    history: the tokens dispatched by its onmessage
\*   sources[c].base         history: the messages of the chat before startStream
\*   sources[c].clientId     the identifier in its stream URL (c itself)
\*   sources[c].submitted    history: the bodies of the submit calls its onopen made
\* w.log is the trace of the handler that is running: the type of every action
\* it dispatched and every EventSource it constructed or closed, in order.

dispatch(w, action, uuid, now) ==
  [w EXCEPT !.state = chatReducer(w.state, action, uuid, now),
            !.log = Append(w.log, action.type)]

Tracked(refs, inst, chatId) == inst # 0 /\ chatId \in DOMAIN refs[inst]

\* mutant: a manual stop does not roll back
stopStreamNoRollback(w, inst, chatId, isManualStop) ==
  IF Tracked(w.refs, inst, chatId)
  THEN LET eventSource == w.refs[inst][chatId]
           w1 == [w EXCEPT !.sources[eventSource].readyState = "closed",
                           !.log = Append(w.log, "EventSource.close"),
                           !.refs[inst] = Remove(w.refs[inst], chatId)]
           w2 == dispatch(w1, [type |-> "SET_STREAMING_START_TIME",
                               payload |-> [chatId |-> chatId, startTime |-> Undefined]],
                          0, 0)
       IN dispatch(w2, [type |-> "SET_CHAT_STREAMING_STATUS",
                        payload |-> [chatId |-> chatId, isStreaming |-> FALSE]],
                   0, 0)
  ELSE w

\* mutant: every stop rolls back, manual or not
stopStreamAlwaysRollback(w, inst, chatId, isManualStop) ==
  IF Tracked(w.refs, inst, chatId)
  THEN LET eventSource == w.refs[inst][chatId]
           w1 == [w EXCEPT !.sources[eventSource].readyState = "closed",
                           !.log = Append(w.log, "EventSource.close"),
                           !.refs[inst] = Remove(w.refs[inst], chatId)]
           w2 == dispatch(w1, [type |-> "SET_STREAMING_START_TIME",
                               payload |-> [chatId |-> chatId, startTime |-> Undefined]],
                          0, 0)
           w3 == dispatch(w2, [type |-> "SET_CHAT_STREAMING_STATUS",
                               payload |-> [chatId |-> chatId, isStreaming |-> FALSE]],
                          0, 0)
       IN dispatch(w3, [type |-> "ROLLBACK_LAST_EXCHANGE",
                        payload |-> [chatId |-> chatId]], 0, 0)
  ELSE w

\* mutant: the dispatches are not guarded by `if (eventSource)`
stopStreamUnguarded(w, inst, chatId, isManualStop) ==
  LET w1 == IF Tracked(w.refs, inst, chatId)
            THEN [w EXCEPT !.sources[w.refs[inst][chatId]].readyState = "closed",
                           !.log = Append(w.log, "EventSource.close"),
                           !.refs[inst] = Remove(w.refs[inst], chatId)]
            ELSE w
      w2 == dispatch(w1, [type |-> "SET_STREAMING_START_TIME",
                          payload |-> [chatId |-> chatId, startTime |-> Undefined]],
                     0, 0)
      w3 == dispatch(w2, [type |-> "SET_CHAT_STREAMING_STATUS",
                          payload |-> [chatId |-> chatId, isStreaming |-> FALSE]],
                     0, 0)
  IN IF isManualStop
     THEN dispatch(w3, [type |-> "ROLLBACK_LAST_EXCHANGE",
                        payload |-> [chatId |-> chatId]], 0, 0)
     ELSE w3

\* mutant: the streaming flag is left set
stopStreamKeepsStreaming(w, inst, chatId, isManualStop) ==
  IF Tracked(w.refs, inst, chatId)
  THEN LET eventSource == w.refs[inst][chatId]
           w1 == [w EXCEPT !.sources[eventSource].readyState = "closed",
                           !.log = Append(w.log, "EventSource.close"),
                           !.refs[inst] = Remove(w.refs[inst], chatId)]
           w2 == dispatch(w1, [type |-> "SET_STREAMING_START_TIME",
                               payload |-> [chatId |-> chatId, startTime |-> Undefined]],
                          0, 0)
       IN IF isManualStop
          THEN dispatch(w2, [type |-> "ROLLBACK_LAST_EXCHANGE",
                             payload |-> [chatId |-> chatId]], 0, 0)
          ELSE w2
  ELSE w

stopStream(w, inst, chatId, isManualStop) ==
  IF Tracked(w.refs, inst, chatId)
  THEN LET eventSource == w.refs[inst][chatId]
           w1 == [w EXCEPT !.sources[eventSource].readyState = "closed",
                           !.log = Append(w.log, "EventSource.close"),
                           !.refs[inst] = Remove(w.refs[inst], chatId)]
           w2 == dispatch(w1, [type |-> "SET_STREAMING_START_TIME",
                               payload |-> [chatId |-> chatId, startTime |-> Undefined]],
                          0, 0)
           w3 == dispatch(w2, [type |-> "SET_CHAT_STREAMING_STATUS",
                               payload |-> [chatId |-> chatId, isStreaming |-> FALSE]],
                          0, 0)
       IN IF isManualStop
          THEN dispatch(w3, [type |-> "ROLLBACK_LAST_EXCHANGE",
                             payload |-> [chatId |-> chatId]], 0, 0)
          ELSE w3
  ELSE w

MessagesOf(state, chatId) ==
  IF chatId \in ChatIds(state) THEN FindChat(state, chatId).messages ELSE <<>>

\* mutant: the placeholder is dispatched before the user message
openStreamPlaceholderFirst(w, base, inst, chatId, prompt, context, uuid, now) ==
  LET w1 == dispatch(w, [type |-> "SET_STREAMING_START_TIME",
                         payload |-> [chatId |-> chatId, startTime |-> now]], 0, now)
      w2 == dispatch(w1, [type |-> "ADD_MODEL_PLACEHOLDER",
                          payload |-> [chatId |-> chatId]], uuid + 2, now)
      w3 == dispatch(w2, [type |-> "ADD_USER_MESSAGE",
                          payload |-> [chatId |-> chatId, content |-> prompt]],
                     uuid + 1, now)
      w4 == dispatch(w3, [type |-> "SET_CHAT_STREAMING_STATUS",
                          payload |-> [chatId |-> chatId, isStreaming |-> TRUE]], 0, now)
      clientId == uuid
      eventSource == [clientId |-> clientId, chatId |-> chatId, owner |-> inst,
                      readyState |-> "connecting", fetch |-> "idle",
                      prompt |-> prompt, context |-> context,
                      delivered |-> <<>>,
                      base |-> base,
                      submitted |-> <<>>]
  IN [w4 EXCEPT !.sources = Put(w4.sources, clientId, eventSource),
                !.refs[inst] = Put(w4.refs[inst], chatId, clientId),
                !.log = Append(w4.log, "new EventSource")]

\* lines 68-79 of startStream: the four dispatches, then the new EventSource
openStream(w, base, inst, chatId, prompt, context, uuid, now) ==
  LET w1 == dispatch(w, [type |-> "SET_STREAMING_START_TIME",
                         payload |-> [chatId |-> chatId, startTime |-> now]], 0, now)
      w2 == dispatch(w1, [type |-> "ADD_USER_MESSAGE",
                          payload |-> [chatId |-> chatId, content |-> prompt]],
                     uuid + 1, now)
      w3 == dispatch(w2, [type |-> "ADD_MODEL_PLACEHOLDER",
                          payload |-> [chatId |-> chatId]], uuid + 2, now)
      w4 == dispatch(w3, [type |-> "SET_CHAT_STREAMING_STATUS",
                          payload |-> [chatId |-> chatId, isStreaming |-> TRUE]], 0, now)
      clientId == uuid
      eventSource == [clientId |-> clientId, chatId |-> chatId, owner |-> inst,
                      readyState |-> "connecting", fetch |-> "idle",
                      prompt |-> prompt, context |-> context,
                      delivered |-> <<>>,
                      base |-> base,
                      submitted |-> <<>>]
  IN [w4 EXCEPT !.sources = Put(w4.sources, clientId, eventSource),
                !.refs[inst] = Put(w4.refs[inst], chatId, clientId),
                !.log = Append(w4.log, "new EventSource")]

\* mutant: the running stream is not stopped first
startStreamNoStop(w, inst, chatId, prompt, context, uuid, now) ==
  openStream(w, MessagesOf(w.state, chatId), inst, chatId, prompt, context, uuid, now)

\* mutant: the running stream is stopped without the manual flag
startStreamPlainStop(w, inst, chatId, prompt, context, uuid, now) ==
  LET w0 == IF Tracked(w.refs, inst, chatId)
            THEN stopStream(w, inst, chatId, FALSE)
            ELSE w
  IN openStream(w0, MessagesOf(w0.state, chatId), inst, chatId, prompt, context,
                uuid, now)

\* mutant: the stop at the start is not guarded by the lookup of a channel
startStreamStopsUntracked(w, inst, chatId, prompt, context, uuid, now) ==
  LET w0 == stopStreamUnguarded(w, inst, chatId, TRUE)
  IN openStream(w0, MessagesOf(w0.state, chatId), inst, chatId, prompt, context,
                uuid, now)

\* uuid, uuid + 1 and uuid + 2 are the three identifiers the call draws
startStream(w, inst, chatId, prompt, context, uuid, now) ==
  LET w0 == IF Tracked(w.refs, inst, chatId)
            THEN stopStream(w, inst, chatId, TRUE)
            ELSE w
  IN openStream(w0, MessagesOf(w0.state, chatId), inst, chatId, prompt, context,
                uuid, now)

\* mutant: the submit call names the chat instead of the connection
onopenChatIdAsClient(w, c) ==
  LET body == [prompt |-> w.sources[c].prompt,
               context |-> w.sources[c].context,
               client_id |-> w.sources[c].chatId]
  IN [w EXCEPT !.sources[c].fetch = "pending",
               !.sources[c].submitted = Append(w.sources[c].submitted, body),
               !.log = Append(w.log, "fetch submit")]

\* eventSource.onopen up to the await: the submission is issued.  prompt,
\* context and clientId are the variables of the startStream call that the
\* handler closes over; c is that clientId.
onopen(w, c) ==
  LET body == [prompt |-> w.sources[c].prompt,
               context |-> w.sources[c].context,
               client_id |-> c]
  IN [w EXCEPT !.sources[c].fetch = "pending",
               !.sources[c].submitted = Append(w.sources[c].submitted, body),
               !.log = Append(w.log, "fetch submit")]

\* the continuation of onopen once fetch settles; ok is response.ok, and a
\* rejected fetch is ok = FALSE as well
\* mutant: a failed submission is issued again
submitSettledRetry(w, c, ok) ==
  IF ok THEN [w EXCEPT !.sources[c].fetch = "ok"]
  ELSE [w EXCEPT !.sources[c].submitted = Append(@, @[Len(@)])]

submitSettled(w, c, ok) ==
  LET w1 == [w EXCEPT !.sources[c].fetch = IF ok THEN "ok" ELSE "failed"]
  IN IF ok THEN w1
     ELSE stopStream(w1, w.sources[c].owner, w.sources[c].chatId, FALSE)

\* mutant: a data event without a token is handled as an error
onmessageStopOnBadData(w, c, data, now) ==
  IF data \in {Malformed, NoToken}
  THEN stopStream(w, w.sources[c].owner, w.sources[c].chatId, FALSE)
  ELSE IF data = ""
  THEN w
  ELSE LET w1 == dispatch(w, [type |-> "APPEND_STREAM_TOKEN",
                              payload |-> [chatId |-> w.sources[c].chatId,
                                           token |-> data]], 0, now)
       IN [w1 EXCEPT !.sources[c].delivered = Append(w.sources[c].delivered, data)]

\* eventSource.onmessage: JSON.parse, then `if (data.token)`; a body that does
\* not parse is caught and logged, a body without a token is passed over
onmessage(w, c, data, now) ==
  IF data \in {Malformed, NoToken}
  THEN w
  ELSE IF data = ""
  THEN w
  ELSE LET w1 == dispatch(w, [type |-> "APPEND_STREAM_TOKEN",
                              payload |-> [chatId |-> w.sources[c].chatId,
                                           token |-> data]], 0, now)
       IN [w1 EXCEPT !.sources[c].delivered = Append(w.sources[c].delivered, data)]

\* mutant: onerror leaves the EventSource to reconnect
onerrorNoStop(w, c) == w

\* the 'end' listener and eventSource.onerror
onend(w, c) == stopStream(w, w.sources[c].owner, w.sources[c].chatId, FALSE)
onerror(w, c) == stopStream(w, w.sources[c].owner, w.sources[c].chatId, FALSE)

\* the body of the clean-up effect: stop every tracked stream whose chat is gone
RECURSIVE StopAll(_, _, _)
StopAll(w, inst, ids) ==
  IF ids = {} THEN w
  ELSE LET id == CHOOSE x \in ids : TRUE
       IN StopAll(stopStream(w, inst, id, FALSE), inst, ids \ {id})

\* mutant: the effect stops every tracked stream
cleanupEffectStopsAll(w, inst) ==
  StopAll(w, inst, DOMAIN w.refs[inst])

cleanupEffect(w, inst) ==
  LET activeStreamIds == DOMAIN w.refs[inst]
      existingChatIds == ChatIds(w.state)
  IN StopAll(w, inst, activeStreamIds \ existingChatIds)

\* ---- the message input (MessageInput) -------------------------------------------
\* String.prototype.trim, for texts whose only white space is the blank
RECURSIVE TrimStart(_)
TrimStart(text) ==
  IF Len(text) > 0 /\ SubSeq(text, 1, 1) = " "
  THEN TrimStart(SubSeq(text, 2, Len(text)))
  ELSE text

RECURSIVE TrimEnd(_)
TrimEnd(text) ==
  IF Len(text) > 0 /\ SubSeq(text, Len(text), Len(text)) = " "
  THEN TrimEnd(SubSeq(text, 1, Len(text) - 1))
  ELSE text

Trim(text) == TrimEnd(TrimStart(text))

\* chats.find(c => c.id === activeChatId) is defined
ActiveChat(st) == st.activeChatId \in ChatIds(st)

\* the test of handleSubmit: `!trimmedPrompt || !activeChat || isStreaming`
\* is false
Submits(st) ==
  /\ ActiveChat(st)
  /\ Trim(FindChat(st, st.activeChatId).draftMessage) # ""
  /\ ~FindChat(st, st.activeChatId).isStreaming

\* mutant: the draft is left in the input
handleSubmitKeepsDraft(w, inst, uuid, now) ==
  IF ~Submits(w.state) THEN w
  ELSE LET activeChat == FindChat(w.state, w.state.activeChatId)
           trimmedPrompt == Trim(activeChat.draftMessage)
       IN startStream(w, inst, activeChat.id, trimmedPrompt, activeChat.context,
                      uuid, now)

handleSubmit(w, inst, uuid, now) ==
  IF ~Submits(w.state) THEN w
  ELSE LET activeChat == FindChat(w.state, w.state.activeChatId)
           trimmedPrompt == Trim(activeChat.draftMessage)
           w1 == startStream(w, inst, activeChat.id, trimmedPrompt,
                             activeChat.context, uuid, now)
       IN dispatch(w1, [type |-> "UPDATE_DRAFT_MESSAGE",
                        payload |-> [chatId |-> activeChat.id, text |-> ""]],
                   0, now)

handleStop(w, inst) ==
  IF ActiveChat(w.state)
  THEN stopStream(w, inst, w.state.activeChatId, TRUE)
  ELSE w

handleInputChange(w, text) ==
  IF ActiveChat(w.state)
  THEN dispatch(w, [type |-> "UPDATE_DRAFT_MESSAGE",
                    payload |-> [chatId |-> w.state.activeChatId, text |-> text]],
                0, 0)
  ELSE w

\* the prompts of the active chat, the latest first
RECURSIVE UserPrompts(_)
UserPrompts(messages) ==
  IF messages = <<>> THEN <<>>
  ELSE LET m == messages[Len(messages)]
           rest == UserPrompts(DropLast(messages, 1))
       IN IF m.role = "user" THEN <<m.content>> \o rest ELSE rest

\* handleKeyDown on ArrowUp and ArrowDown: the draft becomes the prompt at
\* newIndex, or empty at -1
handleKeyDown(w, newIndex) ==
  LET userPrompts == UserPrompts(FindChat(w.state, w.state.activeChatId).messages)
      newPrompt == IF newIndex = -1 THEN "" ELSE userPrompts[newIndex + 1]
  IN dispatch(w, [type |-> "UPDATE_DRAFT_MESSAGE",
                  payload |-> [chatId |-> w.state.activeChatId,
                               text |-> newPrompt]], 0, 0)

\* ---- persistence (useLocalStorage, reducerWithPersistence) -----------------
\* What window.localStorage holds under the key 'chat-history':
\*   NoItem       getItem returns null
\*   EmptyItem    the empty string
\*   Unparsable   a text JSON.parse throws on
\*   Json(v)      a text that JSON.parse turns into the value v
NoItem == [kind |-> "null"]
EmptyItem == [kind |-> "empty"]
Unparsable == [kind |-> "text"]
Json(value) == [kind |-> "json", value |-> value]

\* JSON.stringify leaves out every property whose value is undefined
StringifyMessage(m) ==
  IF m.generationTime = Undefined
  THEN [id |-> m.id, role |-> m.role, content |-> m.content]
  ELSE m
StringifyChat(chat) ==
  LET full == [chat EXCEPT !.messages =
                 [j \in 1..Len(chat.messages) |-> StringifyMessage(chat.messages[j])]]
  IN IF chat.streamingStartTime = Undefined
     THEN [f \in (DOMAIN full) \ {"streamingStartTime"} |-> full[f]]
     ELSE full
Stringify(value) ==
  Json([chats |-> [i \in 1..Len(value.chats) |-> StringifyChat(value.chats[i])],
        activeChatId |-> value.activeChatId])

\* JSON.parse returns the value of the text as it is, with no check of its
\* shape; a property the text does not have reads as undefined
ParseMessage(m) ==
  IF "generationTime" \in DOMAIN m THEN m
  ELSE [id |-> m.id, role |-> m.role, content |-> m.content,
        generationTime |-> Undefined]
ParseChat(chat) ==
  LET ms == [j \in 1..Len(chat.messages) |-> ParseMessage(chat.messages[j])]
  IN [f \in (DOMAIN chat) \cup {"streamingStartTime"} |->
        IF f = "messages" THEN ms
        ELSE IF f \in DOMAIN chat THEN chat[f]
        ELSE Undefined]
Parse(item) ==
  IF "chats" \in DOMAIN item.value
  THEN [item.value EXCEPT !.chats =
          [i \in 1..Len(item.value.chats) |-> ParseChat(item.value.chats[i])]]
  ELSE item.value

\* the initializer of useState in useLocalStorage(key, initialValue): `window`
\* is whether there is a window object, `readable` whether getItem returns
\* rather than throws
load(item, initialValue, window, readable) ==
  IF ~window THEN initialValue
  ELSE IF ~readable THEN initialValue
  ELSE IF item.kind \in {"null", "empty"} THEN initialValue
  ELSE IF item.kind = "text" THEN initialValue
  ELSE Parse(item)

\* mutant: the effect has no try/catch
saveUncaught(item, storedValue, writable) ==
  [item |-> IF writable THEN Stringify(storedValue) ELSE item,
   raised |-> ~writable]

\* the effect of useLocalStorage on [key, storedValue]: `writable` is whether
\* setItem returns rather than throws.  The result is the item afterwards and
\* whether an error left the effect.
save(item, storedValue, writable) ==
  [item |-> IF writable THEN Stringify(storedValue) ELSE item,
   raised |-> FALSE]

\* mutant: the state before the transition is handed to setPersistedState
reducerWithPersistenceStale(st, action, uuid, now) ==
  [newState |-> chatReducer(st, action, uuid, now),
   persisted |-> st]

\* reducerWithPersistence(state, action): the new state, and the value handed
\* to setPersistedState
reducerWithPersistence(st, action, uuid, now) ==
  LET newState == chatReducer(st, action, uuid, now)
  IN [newState |-> newState, persisted |-> newState]

\* the action types chatReducer has a case for: each returns a new object
KnownActions ==
  {"CREATE_CHAT", "DELETE_CHAT", "SET_ACTIVE_CHAT", "ADD_USER_MESSAGE",
   "ADD_MODEL_PLACEHOLDER", "APPEND_STREAM_TOKEN", "SET_CHAT_STREAMING_STATUS",
   "ROLLBACK_LAST_EXCHANGE", "SET_STREAMING_START_TIME", "UPDATE_DRAFT_MESSAGE"}

\* the components read state.chats as an array on the first render
Renders(value) == "chats" \in DOMAIN value

\* ---- state ---------------------------------------------------------------
VARIABLES
  state,            \* the useReducer state of ChatProvider
  sources,          \* clientId -> EventSource
  eventSourcesRef,  \* instance -> (chatId -> clientId), one map per mount
  mounted,          \* the mounted MessageInput instance, 0 when not rendered
  now,              \* Date.now()
  nextUuid,         \* the next value of crypto.randomUUID()
  last,             \* history: what the last step did to a channel
  dispatched,       \* the number of actions handed straight to the reducer
  storage,          \* the localStorage item under 'chat-history'
  storedValue,      \* the useState value of useLocalStorage
  saved,            \* its effect: "pending" | "done" | "failed" (setItem threw)
  crashed           \* an error left a render or an effect: the tree is gone

persistence == <<storage, storedValue, saved, crashed>>

vars == <<state, sources, eventSourcesRef, mounted, now, nextUuid, last, dispatched,
          storage, storedValue, saved, crashed>>

World == [state |-> state, sources |-> sources, refs |-> eventSourcesRef,
          log |-> <<>>]

Times(t) == t >= now /\ t <= MaxTime

\* cause: "manual" (stopStream with isManualStop) | "restart" (the stop inside
\*        startStream) | "auto" (stopStream without isManualStop: the end event,
\*        onerror, a failed submission) | "cleanup" (the clean-up effect);
\*        "noop" (stopStream that found no channel); "ignored" (onmessage with
\*        a body that does not parse or has no token); NoClose for any other step
NoClose == [cause |-> "none", chatId |-> 0]
Closed(cause, inst, chatId) ==
  IF Tracked(eventSourcesRef, inst, chatId)
  THEN [cause |-> cause, chatId |-> chatId]
  ELSE NoClose
\* a stop that answers an error: `event` is "error" (onerror) or "submit failed"
Failed(event, inst, chatId) ==
  IF Tracked(eventSourcesRef, inst, chatId)
  THEN [cause |-> "auto", chatId |-> chatId, event |-> event]
  ELSE NoClose
Stopped(isManualStop, inst, chatId) ==
  IF Tracked(eventSourcesRef, inst, chatId)
  THEN [cause |-> IF isManualStop THEN "manual" ELSE "auto", chatId |-> chatId]
  ELSE [cause |-> "noop", chatId |-> chatId]

\* ChatView renders MessageInput only while chats.find(activeChatId) exists
HasActiveChat(st) == st.activeChatId \in ChatIds(st)

\* A handler's result is committed and the tree re-rendered: MessageInput (and
\* with it a fresh eventSourcesRef) is mounted when an active chat appears and
\* unmounted when there is none.  The hook has no unmount clean-up.
\* An EventSource that is closed and has no submission in flight can run no
\* handler any more; it is dropped from the model as it is from the heap.
\* Every dispatch of the handler went through reducerWithPersistence, so the
\* last state is the one handed to setPersistedState; the effect that writes
\* it runs with the commit, and localStorage is taken to work here (SaveEffect
\* below is the effect on its own, failing or not).
Reachable(srcs) ==
  {c \in DOMAIN srcs : srcs[c].readyState # "closed" \/ srcs[c].fetch = "pending"}

Render(w) ==
  /\ state' = w.state
  /\ sources' = [c \in Reachable(w.sources) |-> w.sources[c]]
  /\ IF HasActiveChat(w.state) /\ mounted = 0
     THEN /\ eventSourcesRef' = Append(w.refs, <<>>)
          /\ mounted' = Len(w.refs) + 1
     ELSE IF ~HasActiveChat(w.state) /\ mounted # 0
     THEN /\ eventSourcesRef' = w.refs
          /\ mounted' = 0
     ELSE /\ eventSourcesRef' = w.refs
          /\ mounted' = mounted
  /\ storedValue' = w.state
  /\ storage' = save(storage, w.state, TRUE).item
  /\ saved' = "done"
  /\ UNCHANGED crashed

\* the first visit: nothing is stored, and the effect of the first commit has
\* written the initial state
Init ==
  /\ sources = <<>>
  /\ eventSourcesRef = <<>>
  /\ mounted = 0
  /\ now = 1
  /\ nextUuid = 1
  /\ last = NoClose
  /\ dispatched = 0
  /\ storedValue = load(NoItem, initialState, TRUE, TRUE)
  /\ state = storedValue
  /\ storage = save(NoItem, storedValue, TRUE).item
  /\ saved = "done"
  /\ crashed = FALSE

\* ---- user actions --------------------------------------------------------
\* App.handleCreateChat (the context is required to be non-blank)
HandleCreateChat(context, title, t) ==
  /\ nextUuid <= MaxUuid
  /\ Len(state.chats) < MaxChats
  /\ Times(t)
  /\ Render(dispatch(World, [type |-> "CREATE_CHAT",
                            payload |-> [context |-> context, title |-> title]],
                     nextUuid, t))
  /\ now' = t
  /\ nextUuid' = nextUuid + 1
  /\ last' = NoClose
  /\ UNCHANGED dispatched

\* ChatListItem.handleDelete, confirmed
HandleDelete(id) ==
  /\ id \in ChatIds(state)
  /\ Render(dispatch(World, [type |-> "DELETE_CHAT", payload |-> [chatId |-> id]],
                     0, now))
  /\ last' = NoClose
  /\ UNCHANGED <<now, nextUuid, dispatched>>

\* ChatListItem.handleSelect
HandleSelect(id) ==
  /\ id \in ChatIds(state)
  /\ Render(dispatch(World, [type |-> "SET_ACTIVE_CHAT", payload |-> [chatId |-> id]],
                     0, now))
  /\ last' = NoClose
  /\ UNCHANGED <<now, nextUuid, dispatched>>

\* ---- the hook's two operations, called on the mounted instance ------------
StartStream(chatId, prompt, t) ==
  /\ mounted # 0
  /\ chatId \in ChatIds(state)
  /\ nextUuid + 2 <= MaxUuid
  /\ Times(t)
  /\ Render(startStream(World, mounted, chatId, prompt,
                        FindChat(state, chatId).context, nextUuid, t))
  /\ now' = t
  /\ nextUuid' = nextUuid + 3
  /\ last' = Closed("restart", mounted, chatId)
  /\ UNCHANGED dispatched

StopStream(chatId, isManualStop) ==
  /\ mounted # 0
  /\ chatId \in ChatIds(state)
  /\ Render(stopStream(World, mounted, chatId, isManualStop))
  /\ last' = Stopped(isManualStop, mounted, chatId)
  /\ UNCHANGED <<now, nextUuid, dispatched>>

\* ---- channel and network events ------------------------------------------
\* the connection is established: readyState becomes OPEN and onopen runs
OnOpen(c) ==
  /\ c \in DOMAIN sources
  /\ sources[c].readyState = "connecting"
  /\ Render(onopen([World EXCEPT !.sources[c].readyState = "open"], c))
  /\ last' = NoClose
  /\ UNCHANGED <<now, nextUuid, dispatched>>

\* the submit call settles, also after the EventSource was closed
SubmitSettled(c, ok) ==
  /\ c \in DOMAIN sources
  /\ sources[c].fetch = "pending"
  /\ Render(submitSettled(World, c, ok))
  /\ last' = IF ok THEN NoClose
                  ELSE Failed("submit failed", sources[c].owner, sources[c].chatId)
  /\ UNCHANGED <<now, nextUuid, dispatched>>

\* the server pushes only for a job it has received
Serving(c) ==
  /\ c \in DOMAIN sources
  /\ sources[c].readyState = "open"
  /\ sources[c].fetch \in {"pending", "ok"}

OnMessage(c, data, t) ==
  /\ Serving(c)
  /\ Len(sources[c].delivered) < MaxTokens
  /\ Times(t)
  /\ Render(onmessage(World, c, data, t))
  /\ now' = t
  /\ last' = IF data \in {Malformed, NoToken}
             THEN [cause |-> "ignored", chatId |-> sources[c].chatId]
             ELSE NoClose
  /\ UNCHANGED <<nextUuid, dispatched>>

OnEnd(c) ==
  /\ Serving(c)
  /\ Render(onend(World, c))
  /\ last' = Closed("auto", sources[c].owner, sources[c].chatId)
  /\ UNCHANGED <<now, nextUuid, dispatched>>

\* a transport error: the browser either starts to reconnect or gives up,
\* then fires onerror
OnError(c, retry) ==
  /\ c \in DOMAIN sources
  /\ sources[c].readyState \in {"connecting", "open"}
  /\ Render(onerror([World EXCEPT !.sources[c].readyState =
                                     IF retry THEN "connecting" ELSE "closed"], c))
  /\ last' = Failed("error", sources[c].owner, sources[c].chatId)
  /\ UNCHANGED <<now, nextUuid, dispatched>>

\* ---- the clean-up effect of the mounted hook ------------------------------
\* It runs after every render in which `chats` changed; a run that finds every
\* tracked id among the chats does nothing, so only the other runs are steps.
CleanupPending ==
  /\ mounted # 0
  /\ (DOMAIN eventSourcesRef[mounted]) \ ChatIds(state) # {}

CleanupEffect ==
  /\ CleanupPending
  /\ Render(cleanupEffect(World, mounted))
  /\ last' = [cause |-> "cleanup", chatId |-> 0]
  /\ UNCHANGED <<now, nextUuid, dispatched>>

\* ---- the page is loaded again ----------------------------------------------
\* Every object of the old page is gone, its EventSources with it, and none of
\* its handlers runs again.  ChatProvider mounts: useLocalStorage loads the
\* item, useReducer starts from what it loaded, MessageInput is mounted if
\* there is an active chat, and the effect of the first commit saves.
Restart ==
  /\ LET value == load(storage, initialState, TRUE, TRUE)
     IN /\ state' = value
        /\ storedValue' = value
        /\ storage' = save(storage, value, TRUE).item
        /\ IF HasActiveChat(value)
           THEN eventSourcesRef' = << <<>> >> /\ mounted' = 1
           ELSE eventSourcesRef' = <<>> /\ mounted' = 0
  /\ sources' = <<>>
  /\ saved' = "done"
  /\ last' = [cause |-> "restart page", chatId |-> 0]
  /\ UNCHANGED <<now, nextUuid, dispatched, crashed>>

\* the ids a chat can have: those this page draws, and that of a session
\* stored by an earlier visit
StoredSession == MaxUuid + 1
SessionIds == 1..StoredSession

Next ==
  \/ \E context \in Contexts, title \in Titles, t \in 1..MaxTime :
       HandleCreateChat(context, title, t)
  \/ \E id \in SessionIds : HandleDelete(id)
  \/ \E id \in SessionIds : HandleSelect(id)
  \/ \E id \in SessionIds, prompt \in Prompts, t \in 1..MaxTime :
       StartStream(id, prompt, t)
  \/ \E id \in SessionIds, isManualStop \in BOOLEAN : StopStream(id, isManualStop)
  \/ \E c \in 1..MaxUuid : OnOpen(c)
  \/ \E c \in 1..MaxUuid, ok \in BOOLEAN : SubmitSettled(c, ok)
  \/ \E c \in 1..MaxUuid, data \in Payloads, t \in 1..MaxTime : OnMessage(c, data, t)
  \/ \E c \in 1..MaxUuid : OnEnd(c)
  \/ \E c \in 1..MaxUuid, retry \in BOOLEAN : OnError(c, retry)
  \/ CleanupEffect
  \/ Restart

Spec == Init /\ [][Next]_vars

\* ---- a stream that is brought to an end ---------------------------------------
\* What ends the stream of chat s: the user presses Stop, one of its channels
\* delivers the end event or an error, or one of its submissions fails.
\* LiveSpec takes it that, while a chat is streaming, one of them happens
\* whenever it stays possible.
Finish(s) ==
  \/ StopStream(s, TRUE)
  \/ \E c \in 1..MaxUuid :
       /\ c \in DOMAIN sources
       /\ sources[c].chatId = s
       /\ \/ OnEnd(c)
          \/ \E retry \in BOOLEAN : OnError(c, retry)
          \/ SubmitSettled(c, FALSE)

\* ---- two sessions ----------------------------------------------------------------
\* A page that was loaded with one session stored by an earlier visit, on
\* which the user has created a second session and started its stream: the
\* state after HandleCreateChat and StartStream.
SessionA == StoredSession
SessionB == 1

PairWorld ==
  LET create == [type |-> "CREATE_CHAT",
                 payload |-> [context |-> "C1", title |-> ""]]
      two == chatReducer(chatReducer(initialState, create, SessionA, 1),
                         create, SessionB, 1)
  IN startStream([state |-> two, sources |-> <<>>, refs |-> << <<>> >>,
                  log |-> <<>>],
                 1, SessionB, "p", "C1", 2, 1)

PairInit ==
  /\ state = PairWorld.state
  /\ sources = PairWorld.sources
  /\ eventSourcesRef = PairWorld.refs
  /\ mounted = 1
  /\ now = 1
  /\ nextUuid = 5
  /\ last = NoClose
  /\ dispatched = 0
  /\ storedValue = state
  /\ storage = save(NoItem, storedValue, TRUE).item
  /\ saved = "done"
  /\ crashed = FALSE

PairSpec == PairInit /\ [][Next]_vars

\* a step of the hook or of a channel that names chat a
AddressedTo(a) ==
  \/ \E prompt \in Prompts, t \in 1..MaxTime : StartStream(a, prompt, t)
  \/ \E isManualStop \in BOOLEAN : StopStream(a, isManualStop)
  \/ \E c \in DOMAIN sources :
       /\ sources[c].chatId = a
       /\ \/ OnOpen(c)
          \/ \E ok \in BOOLEAN : SubmitSettled(c, ok)
          \/ \E data \in Payloads, t \in 1..MaxTime : OnMessage(c, data, t)
          \/ OnEnd(c)
          \/ \E retry \in BOOLEAN : OnError(c, retry)

IsStreaming(s) == s \in ChatIds(state) /\ FindChat(state, s).isStreaming

LiveSpec == Spec /\ WF_vars(\E s \in 1..MaxUuid : IsStreaming(s) /\ Finish(s))

\* ---- the client as the user drives it ------------------------------------------
\* The hook is reached through MessageInput only: the user types into the
\* textarea (enabled while the active chat is not streaming), walks the prompt
\* history with the arrow keys, submits the form and presses Stop (shown while
\* the active chat is streaming).
InputTexts == {" ", " p "}

HandleInputChange(text) ==
  /\ mounted # 0
  /\ ~FindChat(state, state.activeChatId).isStreaming
  /\ Render(handleInputChange(World, text))
  /\ last' = NoClose
  /\ UNCHANGED <<now, nextUuid, dispatched>>

\* historyIndex is not kept: every index the arrow keys can reach is taken
HandleKeyDown(newIndex) ==
  /\ mounted # 0
  /\ ~FindChat(state, state.activeChatId).isStreaming
  /\ newIndex < Len(UserPrompts(FindChat(state, state.activeChatId).messages))
  /\ Len(UserPrompts(FindChat(state, state.activeChatId).messages)) > 0
  /\ Render(handleKeyDown(World, newIndex))
  /\ last' = NoClose
  /\ UNCHANGED <<now, nextUuid, dispatched>>

\* the form is submitted (the Send button, or Enter in the textarea)
HandleSubmit(t) ==
  /\ mounted # 0
  /\ Submits(state) => nextUuid + 2 <= MaxUuid
  /\ Times(t)
  /\ Render(handleSubmit(World, mounted, nextUuid, t))
  /\ now' = t
  /\ nextUuid' = IF Submits(state) THEN nextUuid + 3 ELSE nextUuid
  /\ last' = [cause |-> IF Submits(state) THEN "submit" ELSE "submit refused",
              chatId |-> state.activeChatId]
  /\ UNCHANGED dispatched

HandleStop ==
  /\ mounted # 0
  /\ FindChat(state, state.activeChatId).isStreaming
  /\ Render(handleStop(World, mounted))
  /\ last' = Stopped(TRUE, mounted, state.activeChatId)
  /\ UNCHANGED <<now, nextUuid, dispatched>>

InputNext ==
  \/ \E context \in Contexts, title \in Titles, t \in 1..MaxTime :
       HandleCreateChat(context, title, t)
  \/ \E id \in SessionIds : HandleDelete(id)
  \/ \E id \in SessionIds : HandleSelect(id)
  \/ \E text \in InputTexts : HandleInputChange(text)
  \/ \E newIndex \in -1..(MaxUuid - 1) : HandleKeyDown(newIndex)
  \/ \E t \in 1..MaxTime : HandleSubmit(t)
  \/ HandleStop
  \/ \E c \in 1..MaxUuid : OnOpen(c)
  \/ \E c \in 1..MaxUuid, ok \in BOOLEAN : SubmitSettled(c, ok)
  \/ \E c \in 1..MaxUuid, data \in Payloads, t \in 1..MaxTime : OnMessage(c, data, t)
  \/ \E c \in 1..MaxUuid : OnEnd(c)
  \/ \E c \in 1..MaxUuid, retry \in BOOLEAN : OnError(c, retry)
  \/ CleanupEffect
  \/ Restart

InputSpec == Init /\ [][InputNext]_vars

\* ---- the reducer on its own ------------------------------------------------
\* chatReducer is a pure function that ChatProvider hands to every component as
\* dispatch; ReducerSpec applies it to every sequence of actions.
Drafts == {"", "d"}

SessionActions(id) ==
  {[type |-> "DELETE_CHAT", payload |-> [chatId |-> id]],
   [type |-> "SET_ACTIVE_CHAT", payload |-> [chatId |-> id]],
   [type |-> "ADD_MODEL_PLACEHOLDER", payload |-> [chatId |-> id]],
   [type |-> "ROLLBACK_LAST_EXCHANGE", payload |-> [chatId |-> id]]}
  \cup {[type |-> "ADD_USER_MESSAGE", payload |-> [chatId |-> id, content |-> c]] :
          c \in Prompts}
  \cup {[type |-> "APPEND_STREAM_TOKEN", payload |-> [chatId |-> id, token |-> k]] :
          k \in Tokens \cup {""}}
  \cup {[type |-> "SET_CHAT_STREAMING_STATUS",
          payload |-> [chatId |-> id, isStreaming |-> b]] : b \in BOOLEAN}
  \cup {[type |-> "SET_STREAMING_START_TIME",
          payload |-> [chatId |-> id, startTime |-> st]] :
          st \in (1..MaxTime) \cup {Undefined}}
  \cup {[type |-> "UPDATE_DRAFT_MESSAGE", payload |-> [chatId |-> id, text |-> d]] :
          d \in Drafts}

ReducerActions ==
  UNION {SessionActions(id) : id \in 1..MaxUuid}
  \cup {[type |-> "SET_ACTIVE_CHAT", payload |-> [chatId |-> Null]],
        [type |-> "NOT_AN_ACTION", payload |-> [chatId |-> Null]]}
  \cup {[type |-> "CREATE_CHAT", payload |-> [context |-> c, title |-> ti]] :
          c \in Contexts, ti \in Titles}

DrawsUuid(action) ==
  action.type \in {"CREATE_CHAT", "ADD_USER_MESSAGE", "ADD_MODEL_PLACEHOLDER"}

\* the guards only keep the run finite
Bounded(action) ==
  /\ dispatched < MaxSteps
  /\ DrawsUuid(action) => nextUuid <= MaxUuid
  /\ action.type = "CREATE_CHAT" => Len(state.chats) < MaxSessions
  /\ action.type = "APPEND_STREAM_TOKEN" =>
       \A i \in 1..Len(state.chats) :
         \A j \in 1..Len(state.chats[i].messages) :
           Len(state.chats[i].messages[j].content) < MaxTokens

Dispatch(action, t) ==
  /\ Bounded(action)
  /\ Times(t)
  /\ state' = chatReducer(state, action, nextUuid, t)
  /\ now' = t
  /\ nextUuid' = IF DrawsUuid(action) THEN nextUuid + 1 ELSE nextUuid
  /\ last' = [cause |-> action.type,
              chatId |-> IF action.type = "CREATE_CHAT" THEN nextUuid
                         ELSE action.payload.chatId]
  /\ dispatched' = dispatched + 1
  /\ UNCHANGED <<sources, eventSourcesRef, mounted>>
  /\ UNCHANGED persistence

ReducerNext == \E action \in ReducerActions, t \in 1..MaxTime : Dispatch(action, t)

ReducerSpec == Init /\ [][ReducerNext]_vars

\* ---- the store: the reducer behind dispatch, and the repair effect ----------
\* ChatProvider's effect on [state.chats, state.activeChatId].  React runs it
\* after every commit that changed either, so a pending repair is not
\* postponed for ever: weak fairness.  No call site of the user interface
\* leaves a non-empty list without an active chat, so the effect has work to
\* do only for the store that dispatch exposes.
RepairPending == state.activeChatId = Null /\ Len(state.chats) > 0

\* mutant: the effect selects the last chat of the list
repairEffectLast(st) ==
  chatReducer(st, [type |-> "SET_ACTIVE_CHAT",
                   payload |-> [chatId |-> st.chats[Len(st.chats)].id]], 0, 0)

repairEffect(st) ==
  chatReducer(st, [type |-> "SET_ACTIVE_CHAT",
                   payload |-> [chatId |-> st.chats[1].id]], 0, 0)

RepairEffect ==
  /\ RepairPending
  /\ state' = repairEffect(state)
  /\ last' = [cause |-> "repair", chatId |-> 0]
  /\ UNCHANGED <<sources, eventSourcesRef, mounted, now, nextUuid, dispatched>>
  /\ UNCHANGED persistence

StoreNext == ReducerNext \/ RepairEffect

StoreSpec == Init /\ [][StoreNext]_vars /\ WF_vars(RepairEffect)

\* ---- the store and its persistence -------------------------------------------
\* ChatProvider with useLocalStorage: the load at mount, every dispatch through
\* reducerWithPersistence, the save effect after the commit, and the page
\* loaded again at any moment.  The repair effect dispatches SET_ACTIVE_CHAT,
\* which is one of the actions PersistDispatch draws.

\* an object without `chats`, as a text that parses
IllShaped == Json([activeChatId |-> Null])

\* what a first visit can find under the key
InitialItems == {NoItem, EmptyItem, Unparsable, IllShaped}

Loaded(readable) ==
  [cause |-> IF readable THEN "load" ELSE "load unreadable", chatId |-> 0]

PersistInit ==
  /\ \E item \in InitialItems, readable \in BOOLEAN :
       /\ storage = item
       /\ storedValue = load(item, initialState, TRUE, readable)
       /\ last = Loaded(readable)
  /\ state = storedValue
  /\ crashed = ~Renders(storedValue)
  /\ saved = "pending"
  /\ sources = <<>>
  /\ eventSourcesRef = <<>>
  /\ mounted = 0
  /\ now = 1
  /\ nextUuid = 1
  /\ dispatched = 0

\* React runs the effect of a commit before it renders the next update
PersistDispatch(action, t) ==
  /\ ~crashed
  /\ saved # "pending"
  /\ dispatched < MaxSaved
  /\ Bounded(action)
  /\ Times(t)
  /\ LET r == reducerWithPersistence(state, action, nextUuid, t)
     IN /\ state' = r.newState
        /\ storedValue' = r.persisted
  /\ saved' = IF action.type \in KnownActions THEN "pending" ELSE saved
  /\ now' = t
  /\ nextUuid' = IF DrawsUuid(action) THEN nextUuid + 1 ELSE nextUuid
  /\ last' = [cause |-> action.type,
              chatId |-> IF action.type = "CREATE_CHAT" THEN nextUuid
                         ELSE action.payload.chatId]
  /\ dispatched' = dispatched + 1
  /\ UNCHANGED <<sources, eventSourcesRef, mounted, storage, crashed>>

SaveEffect(writable) ==
  /\ ~crashed
  /\ saved = "pending"
  /\ LET r == save(storage, storedValue, writable)
     IN /\ storage' = r.item
        /\ crashed' = r.raised
  /\ saved' = IF writable THEN "done" ELSE "failed"
  /\ last' = [cause |-> IF writable THEN "save" ELSE "save failed", chatId |-> 0]
  /\ UNCHANGED <<state, storedValue, sources, eventSourcesRef, mounted, now,
                 nextUuid, dispatched>>

\* the page is loaded again, whatever the old page was doing
PageLoad(readable) ==
  /\ LET value == load(storage, initialState, TRUE, readable)
     IN /\ storedValue' = value
        /\ state' = value
        /\ crashed' = ~Renders(value)
  /\ saved' = "pending"
  /\ last' = Loaded(readable)
  /\ UNCHANGED <<storage, sources, eventSourcesRef, mounted, now, nextUuid,
                 dispatched>>

PersistNext ==
  \/ \E action \in ReducerActions, t \in 1..MaxTime : PersistDispatch(action, t)
  \/ \E writable \in BOOLEAN : SaveEffect(writable)
  \/ \E readable \in BOOLEAN : PageLoad(readable)

PersistSpec == PersistInit /\ [][PersistNext]_vars

TypeOK ==
  /\ now \in 1..MaxTime
  /\ nextUuid \in 1..(MaxUuid + 1)
  /\ mounted \in 0..Len(eventSourcesRef)

\* ---- properties ----------------------------------------------------------
Ids == 1..MaxUuid

\* the channels of chat s that were opened and are not closed
OpenIn(srcs, s) ==
  {c \in DOMAIN srcs : srcs[c].chatId = s /\ srcs[c].readyState # "closed"}

UserMessage(id, content) ==
  [id |-> id, role |-> "user", content |-> content, generationTime |-> Undefined]
ModelPlaceholder(id) ==
  [id |-> id, role |-> "model", content |-> "", generationTime |-> Undefined]

\* C1: in every reachable state every session id has at most one channel that
\* was opened and is not closed, whether or not an eventSourcesRef map still
\* records it.
C1_AtMostOneOpenChannel ==
  \A s \in Ids : Cardinality(OpenIn(sources, s)) <= 1

\* a second channel of a chat is open while an earlier one of the same chat,
\* closed, still waits for its submission to settle
C1_Witness ==
  \E c1 \in DOMAIN sources, c2 \in DOMAIN sources :
    /\ c1 # c2
    /\ sources[c1].chatId = sources[c2].chatId
    /\ sources[c1].readyState = "closed"
    /\ sources[c2].readyState = "open"

\* C2: startStream(s, p2, c) while a channel of s is open closes that channel
\* with a manual stop and opens a new one: afterwards exactly one channel is
\* open for s, isStreaming is true and the messages of s are those before the
\* first startStream followed by [user: p2, model: ""].
C2_RestartReplacesExchange ==
  [][\A s \in Ids, p \in Prompts, t \in 1..MaxTime :
       (last'.cause = "restart" /\ last'.chatId = s /\ StartStream(s, p, t)) =>
         LET old == eventSourcesRef[mounted][s]
         IN /\ old \notin OpenIn(sources', s)
            /\ OpenIn(sources', s) = {nextUuid}
            /\ eventSourcesRef'[mounted][s] = nextUuid
            /\ FindChat(state', s).isStreaming
            /\ MessagesOf(state', s) =
                 sources[old].base \o <<UserMessage(nextUuid + 1, p),
                                         ModelPlaceholder(nextUuid + 2)>>]_vars

\* startStream has just replaced a running stream: the chat shows the second
\* prompt only
C2_Witness ==
  /\ last.cause = "restart"
  /\ last.chatId \in ChatIds(state)
  /\ Len(MessagesOf(state, last.chatId)) = 2
  /\ MessagesOf(state, last.chatId)[1].content = "q"
  /\ FindChat(state, last.chatId).isStreaming
  /\ Cardinality(OpenIn(sources, last.chatId)) = 1

\* C3: once stopStream has discarded a connection, no later event of that
\* connection (here the settling of its in-flight submission; a closed
\* EventSource fires nothing else) changes the application state or touches a
\* channel tracked at that time.
C3_StaleEventsIgnored ==
  [][\A c \in Ids, ok \in BOOLEAN :
       (c \in DOMAIN sources /\ sources[c].readyState = "closed"
          /\ SubmitSettled(c, ok)) =>
         /\ state' = state
         /\ eventSourcesRef' = eventSourcesRef
         /\ \A d \in (DOMAIN sources) \ {c} :
              d \in DOMAIN sources' /\ sources'[d] = sources[d]]_vars

\* C4: once the clean-up reaction has run, no channel is open for a session
\* that has been deleted.
C4_NoChannelForDeletedSession ==
  ~CleanupPending =>
    \A c \in DOMAIN sources :
      sources[c].readyState # "closed" => sources[c].chatId \in ChatIds(state)

\* C5: stopStream(s, manual) on the open channel of s, after any number of
\* tokens, leaves s with the messages it had before startStream, not streaming,
\* without a start time and without a channel.
C5_ManualStopRestores ==
  [][\A s \in Ids :
       (last'.cause = "manual" /\ last'.chatId = s) =>
         /\ MessagesOf(state', s) = sources[eventSourcesRef[mounted][s]].base
         /\ ~FindChat(state', s).isStreaming
         /\ FindChat(state', s).streamingStartTime = Undefined
         /\ OpenIn(sources', s) = {}
         /\ ~Tracked(eventSourcesRef', mounted', s)]_vars

\* a manual stop has just ended a stream of a chat that is back to no messages
C5_Witness ==
  /\ last.cause = "manual"
  /\ last.chatId \in ChatIds(state)
  /\ MessagesOf(state, last.chatId) = <<>>
  /\ ~FindChat(state, last.chatId).isStreaming

\* C6: a stream that ends without a manual stop (end event, channel error,
\* failed submission) leaves the session without an open channel and not
\* streaming, and changes no message list.
C6_NonManualStopKeepsMessages ==
  [][\A s \in Ids :
       (last'.cause = "auto" /\ last'.chatId = s) =>
         /\ OpenIn(sources', s) = {}
         /\ Len(state'.chats) = Len(state.chats)
         /\ \A i \in 1..Len(state.chats) :
              state'.chats[i].messages = state.chats[i].messages
         /\ s \in ChatIds(state) => ~FindChat(state', s).isStreaming]_vars

\* a stream has just ended without a manual stop and its exchange is kept,
\* with the part of the answer that had arrived
C6_Witness ==
  /\ last.cause = "auto"
  /\ last.chatId \in ChatIds(state)
  /\ Len(MessagesOf(state, last.chatId)) = 2
  /\ MessagesOf(state, last.chatId)[2].role = "model"
  /\ MessagesOf(state, last.chatId)[2].content = "a"
  /\ ~FindChat(state, last.chatId).isStreaming

\* C7: stopStream for a session without a channel changes nothing, manual or
\* not; and after any stopStream the session has no channel, so a second call
\* is such a no-op.
C7_StopWithoutChannelIsNoop ==
  [][\A s \in Ids :
       /\ (last'.cause \in {"manual", "auto", "noop"} /\ last'.chatId = s) =>
            ~Tracked(eventSourcesRef', mounted', s)
       /\ (last'.cause = "noop" /\ last'.chatId = s) =>
            /\ ~Tracked(eventSourcesRef, mounted, s)
            /\ state' = state
            /\ sources' = sources
            /\ eventSourcesRef' = eventSourcesRef]_vars

\* stopStream has just been called for a chat that has no channel and keeps a
\* completed exchange
C7_Witness ==
  /\ last.cause = "noop"
  /\ last.chatId \in ChatIds(state)
  /\ Len(MessagesOf(state, last.chatId)) = 2

RECURSIVE Concat(_)
Concat(tokens) ==
  IF tokens = <<>> THEN "" ELSE Head(tokens) \o Concat(Tail(tokens))

C9_GenerationTimeSetOnce ==
  [][last'.cause = "APPEND_STREAM_TOKEN" =>
         \A i \in 1..Len(state.chats) :
           \A j \in 1..Len(state.chats[i].messages) :
             LET before == state.chats[i].messages[j]
                 after == state'.chats[i].messages[j]
             IN after.generationTime # before.generationTime =>
                  /\ before.generationTime = Undefined
                  /\ before.content = ""
                  /\ after.content # ""
                  /\ Truthy(state.chats[i].streamingStartTime)]_vars

\* C10: RollbackLastExchange(s) removes the trailing 2 messages of s when s
\* has at least 2 and keeps the rest in order; with 0 or 1 messages the list
\* is unchanged.
C10_RollbackDropsTwo ==
  [][last'.cause = "ROLLBACK_LAST_EXCHANGE" =>
         /\ Len(state'.chats) = Len(state.chats)
         /\ \A i \in 1..Len(state.chats) :
              LET before == state.chats[i].messages
                  after == state'.chats[i].messages
              IN IF state.chats[i].id = last'.chatId /\ Len(before) >= 2
                 THEN /\ Len(after) = Len(before) - 2
                      /\ \A j \in 1..Len(after) : after[j] = before[j]
                 ELSE after = before]_vars

\* a rollback has just run and left its session with a single message: it
\* either found one message and kept it, or found three and removed two
C10_Witness ==
  /\ last.cause = "ROLLBACK_LAST_EXCHANGE"
  /\ last.chatId \in ChatIds(state)
  /\ Len(MessagesOf(state, last.chatId)) = 1

\* C11: startStream on an existing session with messages m and no open channel
\* dispatches, in this order, the start time, the user message, the empty
\* model placeholder and isStreaming = true, and then constructs one
\* EventSource; afterwards the session has messages m followed by
\* [user: prompt, model: ""], isStreaming = true and streamingStartTime = the
\* time of the call, and that EventSource is its only channel.
C11_StartStreamOpensExchange ==
  [][nextUuid' = nextUuid + 3 =>
       \A s \in Ids, p \in Prompts, t \in 1..MaxTime :
         (OpenIn(sources, s) = {} /\ StartStream(s, p, t)) =>
           LET w == startStream(World, mounted, s, p, FindChat(state, s).context,
                                nextUuid, t)
           IN /\ w.log = <<"SET_STREAMING_START_TIME", "ADD_USER_MESSAGE",
                           "ADD_MODEL_PLACEHOLDER", "SET_CHAT_STREAMING_STATUS",
                           "new EventSource">>
              /\ MessagesOf(state', s) =
                   MessagesOf(state, s) \o <<UserMessage(nextUuid + 1, p),
                                             ModelPlaceholder(nextUuid + 2)>>
              /\ FindChat(state', s).isStreaming
              /\ FindChat(state', s).streamingStartTime = t
              /\ t # Undefined
              /\ OpenIn(sources', s) = {nextUuid}
              /\ sources'[nextUuid].readyState = "connecting"
              /\ eventSourcesRef'[mounted'][s] = nextUuid]_vars

\* a second exchange was started on a session whose first exchange had ended
C11_Witness ==
  \E c \in DOMAIN sources :
    /\ sources[c].readyState = "connecting"
    /\ Len(sources[c].base) = 2
    /\ last = NoClose
    /\ sources[c].chatId \in ChatIds(state)
    /\ FindChat(state, sources[c].chatId).isStreaming
    /\ Len(MessagesOf(state, sources[c].chatId)) = 4


\* C12: a submit call is issued only by the step in which its channel, until
\* then connecting and never closed, confirms that it is open; no channel ever
\* has more than one submit call, and a channel that is closed makes none.
C12_SubmitOnlyOnceAfterOpen ==
  [][\A c \in DOMAIN sources' :
       LET before == IF c \in DOMAIN sources THEN sources[c].submitted ELSE <<>>
       IN /\ Len(sources'[c].submitted) <= 1
          /\ sources'[c].submitted # before =>
                /\ c \in DOMAIN sources
                /\ before = <<>>
                /\ sources[c].readyState = "connecting"
                /\ sources'[c].readyState = "open"]_vars

\* a channel is open, its one submit call has succeeded and tokens have come
C12_Witness ==
  \E c \in DOMAIN sources :
    /\ sources[c].readyState = "open"
    /\ sources[c].fetch = "ok"
    /\ Len(sources[c].submitted) = 1
    /\ Len(sources[c].delivered) = 2

\* C13: the EventSource that a startStream call constructs is addressed by a
\* clientId that no other EventSource has or had, and remembers the prompt
\* and the context of that call; every submit call carries exactly that
\* prompt, that context and, as client_id, that clientId.
C13_SubmissionMatchesChannel ==
  [][/\ \A c \in DOMAIN sources' :
          /\ \A i \in 1..Len(sources'[c].submitted) :
                sources'[c].submitted[i] =
                  [prompt |-> sources'[c].prompt,
                   context |-> sources'[c].context,
                   client_id |-> sources'[c].clientId]
          /\ c \in DOMAIN sources =>
                /\ sources'[c].prompt = sources[c].prompt
                /\ sources'[c].context = sources[c].context
                /\ sources'[c].clientId = sources[c].clientId
          /\ \A d \in DOMAIN sources' :
                c # d => sources'[c].clientId # sources'[d].clientId
     /\ nextUuid' = nextUuid + 3 =>
          \A s \in Ids, p \in Prompts, t \in 1..MaxTime :
            StartStream(s, p, t) =>
              /\ \A c \in DOMAIN sources : sources[c].clientId < nextUuid
              /\ (DOMAIN sources') \ (DOMAIN sources) = {nextUuid}
              /\ sources'[nextUuid].clientId = nextUuid
              /\ sources'[nextUuid].prompt = p
              /\ sources'[nextUuid].context = FindChat(state, s).context]_vars

\* two channels, opened one after the other with different prompts, have each
\* made their submit call
C13_Witness ==
  \E c, d \in DOMAIN sources :
    /\ c # d
    /\ sources[c].prompt = "p"
    /\ sources[d].prompt = "q"
    /\ Len(sources[c].submitted) = 1
    /\ Len(sources[d].submitted) = 1


\* C14: in every reachable state activeChatId is null or the id of a chat in
\* the list.
C14_ActiveChatExists ==
  state.activeChatId = Null \/ state.activeChatId \in ChatIds(state)


\* C15: whenever the list has a chat and activeChatId is null, the repair
\* effect eventually runs unless another action ends that condition first; when
\* it runs it selects the first chat of the list and changes nothing else, so
\* a state with no repair pending has an active chat id or no chat.
C15_RepairSelectsFirst ==
  /\ RepairPending ~> ~RepairPending
  /\ [][last'.cause = "repair" =>
          /\ RepairPending
          /\ state'.activeChatId = state.chats[1].id
          /\ state'.chats = state.chats
          /\ ~RepairPending']_vars

\* the repair has just selected the newer of two chats
C15_Witness ==
  /\ last.cause = "repair"
  /\ Len(state.chats) = 2
  /\ state.activeChatId = state.chats[1].id


C17_DeletePromotesNextOldest ==
  [][(/\ last'.cause = "DELETE_CHAT"
      /\ last'.chatId \in ChatIds(state)
      /\ state.activeChatId = last'.chatId) =>
       LET n == Len(state.chats)
           pos == CHOOSE i \in 1..n : state.chats[i].id = last'.chatId
       IN IF n = 1 THEN state'.activeChatId = Null
          ELSE IF pos < n THEN state'.activeChatId = state.chats[pos + 1].id
          ELSE state'.activeChatId \in ChatIds(state')]_vars


\* the chats stand in the list newest first: identifiers are drawn in the
\* order of creation, and createdAt never grows along the list
NewestFirst(st) ==
  \A i, j \in 1..Len(st.chats) :
    i < j => /\ st.chats[i].id > st.chats[j].id
             /\ st.chats[i].createdAt >= st.chats[j].createdAt

\* C18: CREATE_CHAT puts one new chat at the head of the list, with an id no
\* chat had, the context of the action, no messages and isStreaming = false,
\* and makes it the active chat; the chats that existed follow it unchanged
\* and in their order.  So the list is newest first in every state.
C18_CreateInsertsAtHead ==
  [][/\ NewestFirst(state')
     /\ last'.cause = "CREATE_CHAT" =>
          \E action \in ReducerActions, t \in 1..MaxTime :
            /\ action.type = "CREATE_CHAT"
            /\ Dispatch(action, t)
            /\ Len(state'.chats) = Len(state.chats) + 1
            /\ Tail(state'.chats) = state.chats
            /\ state'.chats[1].id \notin ChatIds(state)
            /\ state'.chats[1].context = action.payload.context
            /\ state'.chats[1].createdAt = t
            /\ state'.chats[1].messages = <<>>
            /\ state'.chats[1].isStreaming = FALSE
            /\ state'.activeChatId = state'.chats[1].id]_vars

\* a chat was created while an older chat already held a message
C18_Witness ==
  /\ last.cause = "CREATE_CHAT"
  /\ Len(state.chats) = 2
  /\ state.activeChatId = state.chats[1].id
  /\ state.chats[1].messages = <<>>
  /\ Len(state.chats[2].messages) = 1


\* an AppState value as types/index.ts declares it
MessageOK(m) ==
  /\ DOMAIN m = {"id", "role", "content", "generationTime"}
  /\ m.id \in Ids
  /\ m.role \in {"user", "model"}
  /\ m.generationTime \in {Undefined} \cup (0..MaxTime)
ChatOK(c) ==
  /\ DOMAIN c = {"id", "title", "context", "messages", "createdAt", "isStreaming",
                 "streamingStartTime", "draftMessage"}
  /\ c.id \in Ids
  /\ c.context \in Contexts
  /\ c.createdAt \in 1..MaxTime
  /\ c.isStreaming \in BOOLEAN
  /\ c.streamingStartTime \in {Undefined} \cup (1..MaxTime)
  /\ c.draftMessage \in Drafts
  /\ \A j \in 1..Len(c.messages) : MessageOK(c.messages[j])
StateOK(st) ==
  /\ DOMAIN st = {"chats", "activeChatId"}
  /\ st.activeChatId \in Ids \cup {Null}
  /\ \A i \in 1..Len(st.chats) : ChatOK(st.chats[i])

\* the actions that change the record of the session they name
RecordActions ==
  {"ADD_USER_MESSAGE", "ADD_MODEL_PLACEHOLDER", "APPEND_STREAM_TOKEN",
   "SET_CHAT_STREAMING_STATUS", "ROLLBACK_LAST_EXCHANGE",
   "SET_STREAMING_START_TIME", "UPDATE_DRAFT_MESSAGE"}

C20_AppendTouchesLastMessageOnly ==
  [][last'.cause = "APPEND_STREAM_TOKEN" =>
       LET s == last'.chatId
           old == MessagesOf(state, s)
           new == MessagesOf(state', s)
           n == Len(old)
       IN IF s \notin ChatIds(state) \/ n = 0 \/ old[n].role = "user"
          THEN state' = state
          ELSE /\ state'.activeChatId = state.activeChatId
               /\ Len(state'.chats) = Len(state.chats)
               /\ \A i \in 1..Len(state.chats) :
                    IF state.chats[i].id = s
                    THEN state'.chats[i] = [state.chats[i] EXCEPT !.messages = new]
                    ELSE state'.chats[i] = state.chats[i]
               /\ Len(new) = n
               /\ \A j \in 1..(n - 1) : new[j] = old[j]
               /\ new[n].id = old[n].id
               /\ new[n].role = old[n].role]_vars

\* a token was dispatched to a chat whose last message is the user's
C20_Witness ==
  /\ last.cause = "APPEND_STREAM_TOKEN"
  /\ last.chatId \in ChatIds(state)
  /\ Len(MessagesOf(state, last.chatId)) = 2
  /\ MessagesOf(state, last.chatId)[2].role = "user"


\* ---- persistence ---------------------------------------------------------------
Loads == {"load", "load unreadable"}
Saves == {"save", "save failed"}

\* the item cannot be turned into a well-formed AppState
Corrupt(item) ==
  \/ item.kind \in {"empty", "text"}
  \/ item.kind = "json" /\ ~StateOK(Parse(item))

\* C21: a load that finds localStorage unreadable, no item under the key, or an
\* item that cannot be turned into a well-formed AppState yields initialState
\* and raises nothing; nothing but a load and the reducer sets the state, so a
\* write to localStorage leaves the state as it is.
C21_LoadFallsBackToDefault ==
  /\ [](/\ last.cause \in Loads
        /\ \/ last.cause = "load unreadable"
           \/ storage = NoItem
           \/ Corrupt(storage)
        => state = initialState /\ ~crashed)
  /\ [][last'.cause \in Saves => state' = state /\ storedValue' = storedValue]_vars


\* C22: every transition of the reducer hands the whole new state to
\* setPersistedState and leaves a save pending; when the pending save has run
\* with localStorage working, the item is the text of the current state and
\* loads as that state; and a page load at that point starts from exactly the
\* state the old page was in.
C22_SavedStateIsCurrent ==
  [][/\ last'.cause \in KnownActions =>
          saved' = "pending" /\ storedValue' = state'
     /\ saved' = "done" =>
          /\ storage' = Stringify(state')
          /\ load(storage', initialState, TRUE, TRUE) = state'
     /\ last'.cause = "load" /\ saved = "done" =>
          state' = state /\ ~crashed']_vars

\* the page was loaded again after two saved transitions, one of them a
\* message, and the state is the one that was saved
C22_Witness ==
  /\ ~crashed
  /\ last.cause = "load"
  /\ dispatched = 2
  /\ Len(state.chats) = 1
  /\ Len(state.chats[1].messages) = 1
  /\ storage = Stringify(state)
  /\ storage.value.chats[1] # state.chats[1]


\* C23: a save whose setItem throws changes neither the state nor the item and
\* raises nothing; the transition that triggered it stays applied; and after
\* it every transition is still applied through the reducer and leaves a save
\* pending, which writes the whole current state when setItem works again.
C23_FailedSaveIsSwallowed ==
  [][/\ last'.cause = "save failed" =>
          /\ state' = state
          /\ storedValue' = state
          /\ storage' = storage
          /\ saved' = "failed"
          /\ ~crashed'
     /\ saved = "failed" /\ last'.cause \in KnownActions =>
          /\ saved' = "pending"
          /\ storedValue' = state'
          /\ ~crashed'
     /\ last'.cause = "save" => storage' = Stringify(state') /\ state' = state]_vars

\* the save of the first session failed, and a second session was created
\* after it: the item is still the one written at mount
C23_Witness ==
  /\ ~crashed
  /\ saved = "pending"
  /\ storage = Stringify(initialState)
  /\ Len(state.chats) = 2
  /\ dispatched = 2


\* ---- the stream, continued -------------------------------------------------------
\* the last message of chat s
LastMessage(st, s) == MessagesOf(st, s)[Len(MessagesOf(st, s))]

\* C24: a data event whose body does not parse, or parses to an object without
\* a token, leaves the reducer state, every EventSource and every
\* eventSourcesRef map as they were, so its channel stays open, tracked and
\* its chat streaming; and a token that the same channel delivers next is
\* appended to the last message as any other.
C24_BadDataChangesNothing ==
  [][/\ last'.cause = "ignored" =>
          /\ state' = state
          /\ sources' = sources
          /\ eventSourcesRef' = eventSourcesRef
          /\ mounted' = mounted
          /\ \E c \in DOMAIN sources' :
               /\ sources'[c].chatId = last'.chatId
               /\ sources'[c].readyState = "open"
     /\ last.cause = "ignored" =>
          \A c \in DOMAIN sources, k \in Tokens, t \in 1..MaxTime :
            (/\ sources[c].chatId = last.chatId
             /\ last.chatId \in ChatIds(state)
             /\ OnMessage(c, k, t)) =>
               /\ sources'[c].readyState = "open"
               /\ LastMessage(state', last.chatId).content =
                    LastMessage(state, last.chatId).content \o k]_vars

\* a body without a token arrived on a tracked, open channel of a streaming
\* chat between its first and its second token
C24_Witness ==
  /\ last.cause = "ignored"
  /\ mounted # 0
  /\ last.chatId \in ChatIds(state)
  /\ \E c \in DOMAIN sources :
       /\ sources[c].chatId = last.chatId
       /\ sources[c].readyState = "open"
       /\ Tracked(eventSourcesRef, mounted, last.chatId)
       /\ eventSourcesRef[mounted][last.chatId] = c
       /\ FindChat(state, last.chatId).isStreaming
       /\ sources[c].delivered = <<"a">>
       /\ LastMessage(state, last.chatId).content = "a"


\* the channels of chat s that can still fire an event
Live(srcs, s) ==
  {c \in DOMAIN srcs : srcs[c].chatId = s /\ srcs[c].readyState # "closed"}

\* C25: onerror and a failed submission leave no channel of their chat that
\* is not closed; a closed EventSource is never opened again, a submission is
\* issued only by the onopen of a connecting EventSource, and only startStream
\* constructs an EventSource: so after the error nothing is opened and nothing
\* submitted for the chat until startStream runs again.
C25_ErrorsAreTerminal ==
  [][/\ \A c \in DOMAIN sources :
          (SubmitSettled(c, FALSE) \/ \E retry \in BOOLEAN : OnError(c, retry)) =>
            Live(sources', sources[c].chatId) = {}
     /\ nextUuid' # nextUuid + 3 =>
          /\ DOMAIN sources' \subseteq DOMAIN sources
          /\ \A c \in DOMAIN sources' :
               /\ sources[c].readyState = "closed" =>
                    sources'[c].readyState = "closed"
               /\ sources'[c].submitted # sources[c].submitted =>
                    /\ sources[c].readyState = "connecting"
                    /\ sources[c].submitted = <<>>]_vars

\* onerror has just stopped the stream of a chat whose submission is still in
\* flight: the chat keeps its two messages and has no channel left to fire
C25_Witness ==
  /\ "event" \in DOMAIN last
  /\ last.event = "error"
  /\ last.chatId \in ChatIds(state)
  /\ Live(sources, last.chatId) = {}
  /\ \E c \in DOMAIN sources :
       sources[c].chatId = last.chatId /\ sources[c].fetch = "pending"
  /\ ~FindChat(state, last.chatId).isStreaming
  /\ Len(MessagesOf(state, last.chatId)) = 2


\* C26: in every reachable state a chat with isStreaming = true has at least
\* two messages, the last with role model and the one before it with role
\* user.
C26_StreamingChatEndsWithPlaceholder ==
  \A i \in 1..Len(state.chats) :
    state.chats[i].isStreaming =>
      LET messages == state.chats[i].messages
      IN /\ Len(messages) >= 2
         /\ messages[Len(messages)].role = "model"
         /\ messages[Len(messages) - 1].role = "user"


\* a chat is streaming its second exchange
C26_Witness ==
  \E i \in 1..Len(state.chats) :
    /\ state.chats[i].isStreaming
    /\ Len(state.chats[i].messages) = 4
    /\ state.chats[i].messages[4].content # ""
    /\ OpenIn(sources, state.chats[i].id) # {}


\* C27: in every state a chat that is not streaming has no streamingStartTime,
\* and after every stopStream, manual or not, the chat it names has none.
C27_StartTimeClearedWhenStreamingEnds ==
  /\ [](\A i \in 1..Len(state.chats) :
          ~state.chats[i].isStreaming =>
            state.chats[i].streamingStartTime = Undefined)
  /\ [][(/\ last'.cause \in {"manual", "auto", "noop"}
         /\ last'.chatId \in ChatIds(state')) =>
           FindChat(state', last'.chatId).streamingStartTime = Undefined]_vars


\* user, model, user, model, ...: even length, odd positions user
Paired(messages) ==
  /\ Len(messages) % 2 = 0
  /\ \A j \in 1..Len(messages) :
       messages[j].role = IF j % 2 = 1 THEN "user" ELSE "model"

\* C28: in every state between two handlers every chat's messages are pairs
\* user, model; a startStream leaves the chat it names with exactly two
\* messages more than it had after its own stop; a manual stop that found a
\* channel leaves exactly two fewer, the same list without its last pair; and
\* no other step changes the number of messages of a chat.
C28_MessagesInPairs ==
  /\ [](\A i \in 1..Len(state.chats) : Paired(state.chats[i].messages))
  /\ [][\A s \in ChatIds(state) \cap ChatIds(state') :
          LET before == MessagesOf(state, s)
              after == MessagesOf(state', s)
          IN IF /\ nextUuid' = nextUuid + 3
                /\ nextUuid \in DOMAIN sources'
                /\ sources'[nextUuid].chatId = s
             THEN /\ Len(sources'[nextUuid].base) =
                       IF last'.cause = "restart" THEN Len(before) - 2
                       ELSE Len(before)
                  /\ Len(after) = Len(sources'[nextUuid].base) + 2
                  /\ DropLast(after, 2) = sources'[nextUuid].base
             ELSE IF last'.cause = "manual" /\ last'.chatId = s
             THEN Len(after) = Len(before) - 2 /\ after = DropLast(before, 2)
             ELSE Len(after) = Len(before)]_vars

\* the second exchange of a chat was rolled back by a manual stop after a
\* token had arrived: the first pair is all that is left
C28_Witness ==
  /\ last.cause = "manual"
  /\ last.chatId \in ChatIds(state)
  /\ Len(MessagesOf(state, last.chatId)) = 2
  /\ MessagesOf(state, last.chatId)[2].content # ""
  /\ nextUuid = 8


\* C29: when what ends a stream keeps happening (Stop, the end event, an
\* error, a failed submission), no chat goes on streaming for ever: every
\* chat that is streaming is later not streaming or deleted, which, a run
\* starting only finitely many streams, is that again and again no chat is
\* streaming; and every stop that answers an error or the end event leaves
\* the chat not streaming.
C29_StreamEventuallyEnds ==
  /\ []<>(\A s \in Ids : ~IsStreaming(s))
  /\ [][(last'.cause = "auto" /\ last'.chatId \in ChatIds(state')) =>
          ~FindChat(state', last'.chatId).isStreaming]_vars


FieldOf ==
  [SET_CHAT_STREAMING_STATUS |-> "isStreaming",
   SET_STREAMING_START_TIME |-> "streamingStartTime",
   UPDATE_DRAFT_MESSAGE |-> "draftMessage"]

\* C31: SET_CHAT_STREAMING_STATUS, SET_STREAMING_START_TIME and
\* UPDATE_DRAFT_MESSAGE change at most their own field (isStreaming,
\* streamingStartTime, draftMessage) of the addressed chat: its messages and
\* other fields, every other chat, the order of the list and activeChatId are
\* as before.
C31_FieldActionsTouchOwnField ==
  [][last'.cause \in DOMAIN FieldOf =>
       LET field == FieldOf[last'.cause]
       IN /\ state'.activeChatId = state.activeChatId
          /\ Len(state'.chats) = Len(state.chats)
          /\ \A i \in 1..Len(state.chats) :
               IF state.chats[i].id = last'.chatId
               THEN state'.chats[i] =
                      [state.chats[i] EXCEPT ![field] = state'.chats[i][field]]
               ELSE state'.chats[i] = state.chats[i]]_vars

\* the start time of the older of two chats was set; the chat holds a
\* message and the other chat is the active one
C31_Witness ==
  /\ last.cause = "SET_STREAMING_START_TIME"
  /\ Len(state.chats) = 2
  /\ last.chatId = state.chats[2].id
  /\ state.chats[2].streamingStartTime = 1
  /\ Len(state.chats[2].messages) = 1
  /\ state.activeChatId = state.chats[1].id

\* the last message of `new` is that of `old`, a model message, with a token
\* put behind its content (and the generationTime the first token sets)
Grown(old, new) ==
  /\ Len(old) > 0
  /\ Len(new) = Len(old)
  /\ \A j \in 1..(Len(old) - 1) : new[j] = old[j]
  /\ LET before == old[Len(old)]
         after == new[Len(old)]
     IN /\ before.role = "model"
        /\ after.role = "model"
        /\ after.id = before.id
        /\ \E token \in Tokens \cup {""} : after.content = before.content \o token

\* C32: over every transition of the reducer a chat that is still in the list
\* keeps its id, context, title and createdAt, and its message list is as
\* before, or has one message more at the end, or has the content of its last
\* message, a model message, grown by a suffix, or has lost its last two
\* messages; the messages before these are the same and in the same order.
C32_HistoryChangesInThreeWays ==
  [][\A s \in ChatIds(state) \cap ChatIds(state') :
       LET before == FindChat(state, s)
           after == FindChat(state', s)
           old == before.messages
           new == after.messages
       IN /\ after.id = before.id
          /\ after.context = before.context
          /\ after.title = before.title
          /\ after.createdAt = before.createdAt
          /\ \/ new = old
             \/ Len(new) = Len(old) + 1 /\ DropLast(new, 1) = old
             \/ Grown(old, new)
             \/ Len(old) >= 2 /\ new = DropLast(old, 2)]_vars

\* a second token was put behind the first in the answer of a chat
C32_Witness ==
  /\ last.cause = "APPEND_STREAM_TOKEN"
  /\ last.chatId \in ChatIds(state)
  /\ Len(MessagesOf(state, last.chatId)) = 2
  /\ MessagesOf(state, last.chatId)[1].content = "p"
  /\ MessagesOf(state, last.chatId)[2].content = "ab"

\* ---- the streaming flag and the channels the hook tracks ------------------------
\* the mounted instance tracks, for chat s, an EventSource that is not closed
\* (eventSourcesRef.current[s])
TrackedOpen(s) ==
  /\ Tracked(eventSourcesRef, mounted, s)
  /\ eventSourcesRef[mounted][s] \in DOMAIN sources
  /\ sources[eventSourcesRef[mounted][s]].readyState # "closed"

\* C33: in every state (each is one in which no handler is part-way) a chat
\* with isStreaming = true has a channel that is not closed and is tracked by
\* the mounted hook, also in the state loaded from storage after the page was
\* loaded again during a stream.
C33_StreamingHasTrackedChannel ==
  \A s \in ChatIds(state) : FindChat(state, s).isStreaming => TrackedOpen(s)

\* C34: when no clean-up is pending, every chat id that a hook instance tracks
\* in its eventSourcesRef map is the id of a chat in the list, and that chat
\* has isStreaming = true.
C34_TrackedChannelHasStreamingChat ==
  ~CleanupPending =>
    \A inst \in 1..Len(eventSourcesRef) :
      \A s \in DOMAIN eventSourcesRef[inst] :
        s \in ChatIds(state) /\ FindChat(state, s).isStreaming

\* ---- completed exchanges -----------------------------------------------------------
\* The messages of chat s that do not belong to a running stream: all of them,
\* but for the exchange startStream added when the hook tracks a channel for s.
Settled(s) ==
  IF TrackedOpen(s) THEN Len(MessagesOf(state, s)) - 2 ELSE Len(MessagesOf(state, s))

\* C35: a stream that ends without a manual stop leaves its user and model
\* message among the settled messages of the chat, and no step (startStream,
\* stopStream manual or not, a token, an event of an earlier connection, a
\* reload) changes or removes a settled message of a chat that stays in the
\* list: the settled messages of before are a prefix of the messages of after,
\* and remain settled.
C35_CompletedExchangeIsKept ==
  [][\A s \in ChatIds(state) \cap ChatIds(state') :
       LET old == MessagesOf(state, s)
           new == MessagesOf(state', s)
           n == Settled(s)
       IN /\ n >= 0
          /\ Len(new) >= n
          /\ SubSeq(new, 1, n) = SubSeq(old, 1, n)
          /\ Settled(s)' >= n
          /\ (last'.cause = "auto" /\ last'.chatId = s) =>
               /\ Len(old) >= 2
               /\ new = old
               /\ Settled(s)' = Len(old)]_vars

\* a second stream of a chat was stopped by the user, and the exchange of the
\* first, with the token it received, is what the chat holds
C35_Witness ==
  /\ last.cause = "manual"
  /\ last.chatId \in ChatIds(state)
  /\ nextUuid = 8
  /\ Len(MessagesOf(state, last.chatId)) = 2
  /\ MessagesOf(state, last.chatId)[1].content = "p"
  /\ MessagesOf(state, last.chatId)[2].content = "a"

\* ---- after a chat was deleted --------------------------------------------------------
\* an id that was given out (drawn on this page, or that of the stored
\* session) and names no chat of the list
Gone(id) == id \notin ChatIds(state) /\ (id < nextUuid \/ id = StoredSession)

\* a handler of EventSource c runs
ChannelEvent(c) ==
  \/ OnOpen(c)
  \/ \E ok \in BOOLEAN : SubmitSettled(c, ok)
  \/ \E data \in Payloads, t \in 1..MaxTime : OnMessage(c, data, t)
  \/ OnEnd(c)
  \/ \E retry \in BOOLEAN : OnError(c, retry)

\* C36: an id that names no chat any more names none after any step; every
\* action on a chat record (token, streaming flag, start time, roll-back,
\* draft, user message, placeholder) that carries it returns the state it was
\* given; and every event of a channel of that chat, like every run of the
\* clean-up effect, leaves the chats and activeChatId as they were.
C36_DeletedChatStaysDeleted ==
  /\ [](\A id \in SessionIds :
          Gone(id) =>
            \A a \in SessionActions(id) :
              a.type \in RecordActions =>
                chatReducer(state, a, nextUuid, now) = state)
  /\ [][/\ \A id \in SessionIds :
             Gone(id) =>
               /\ id \notin ChatIds(state')
               /\ (\E c \in DOMAIN sources :
                     sources[c].chatId = id /\ ChannelEvent(c)) => state' = state
        /\ CleanupEffect => state' = state]_vars

\* the streaming chat SessionB was deleted and the clean-up effect has stopped
\* its stream, while the other chat goes on streaming with a token received
C36_Witness ==
  /\ last.cause = "cleanup"
  /\ Gone(SessionB)
  /\ \A c \in DOMAIN sources : sources[c].chatId # SessionB
  /\ SessionA \in ChatIds(state)
  /\ FindChat(state, SessionA).isStreaming
  /\ TrackedOpen(SessionA)
  /\ LastMessage(state, SessionA).content = "a"

\* ---- the message input ------------------------------------------------------------
\* C37: a step of the message input that calls startStream (it draws three
\* identifiers) is taken with an active chat whose draft is not empty after
\* trimming and whose isStreaming is false; it appends the trimmed draft and
\* the placeholder to that chat and to no other, and leaves the draft of that
\* chat empty.  No step adds a message to a chat that is marked as streaming.
C37_SubmitStartsOnlyIdleChat ==
  [][/\ nextUuid' = nextUuid + 3 =>
          /\ ActiveChat(state)
          /\ LET s == state.activeChatId
                 before == FindChat(state, s)
             IN /\ Trim(before.draftMessage) # ""
                /\ ~before.isStreaming
                /\ s \in ChatIds(state')
                /\ FindChat(state', s).draftMessage = ""
                /\ FindChat(state', s).isStreaming
                /\ MessagesOf(state', s) =
                     before.messages \o
                       <<UserMessage(nextUuid + 1, Trim(before.draftMessage)),
                         ModelPlaceholder(nextUuid + 2)>>
                /\ \A o \in ChatIds(state) \ {s} :
                     MessagesOf(state', o) = MessagesOf(state, o)
     /\ \A s \in ChatIds(state) \cap ChatIds(state') :
          FindChat(state, s).isStreaming =>
            Len(MessagesOf(state', s)) <= Len(MessagesOf(state, s))]_vars

\* the second prompt of a chat has just been submitted: the chat holds it
\* trimmed, is streaming, and its draft is empty
C37_Witness ==
  /\ last.cause = "submit"
  /\ last.chatId \in ChatIds(state)
  /\ Len(MessagesOf(state, last.chatId)) = 4
  /\ MessagesOf(state, last.chatId)[3].content = "p"
  /\ FindChat(state, last.chatId).draftMessage = ""
  /\ FindChat(state, last.chatId).isStreaming


====
